---- MODULE Spec2Model ----
(***************************************************************************)
(* The development workflow of the repository: the LangGraph StateGraph    *)
(* built by create_development_workflow (modular-architecture.py), the     *)
(* twenty node functions (development-workflow-agent.py) and the loop of   *)
(* main() that streams the graph.                                          *)
(*                                                                         *)
(* The node functions are those of development-workflow-agent.py, whose    *)
(* listing ends inside maintenance; the graph is the one of                *)
(* modular-architecture.py.                                                *)
(*                                                                         *)
(* A Python dict is a TLA+ function whose domain is its key set; a missing *)
(* key is a key outside the domain.  A model output (chain.invoke) is an   *)
(* input of the step that consumes it.                                     *)
(***************************************************************************)
EXTENDS Integers, Sequences, FiniteSets, TLC

\* ------------------------------------------------------------------ bounds
MaxBudget == 15
MaxPayload == 1
MaxStories == 1
MaxSetbacks == 1
MaxClockBudget == 4

Payloads == 1..MaxPayload

\* ------------------------------------------------------------- dict helpers
EmptyDict == [k \in {} |-> TRUE]

Get(d, k, default) == IF k \in DOMAIN d THEN d[k] ELSE default

DictSet(d, k, v) == [x \in (DOMAIN d) \cup {k} |-> IF x = k THEN v ELSE d[x]]

\* ------------------------------------------------------------ step registry
END == "__end__"

GateSteps ==
    {"product_owner_review", "design_review", "code_review",
     "security_review", "test_cases_review", "qa_testing"}

FixSteps ==
    {"revise_user_stories", "revise_design_documents", "fix_code_after_review",
     "fix_code_after_security", "fix_test_cases", "fix_code_after_qa"}

Steps ==
    {"collect_requirements", "generate_user_stories", "product_owner_review",
     "revise_user_stories", "create_design_documents", "design_review",
     "revise_design_documents", "generate_code", "code_review",
     "fix_code_after_review", "security_review", "fix_code_after_security",
     "write_test_cases", "test_cases_review", "fix_test_cases", "qa_testing",
     "fix_code_after_qa", "deployment", "monitoring", "maintenance"}

\* Mutant: the security fix registered under the name of the review fix.
NodeRegistrations_repeats_a_name ==
    <<"collect_requirements", "generate_user_stories", "product_owner_review",
      "revise_user_stories", "create_design_documents", "design_review",
      "revise_design_documents", "generate_code", "code_review",
      "fix_code_after_review", "security_review", "fix_code_after_review",
      "write_test_cases", "test_cases_review", "fix_test_cases", "qa_testing",
      "fix_code_after_qa", "deployment", "monitoring", "maintenance">>

\* The add_node calls of create_development_workflow, in source order.
NodeRegistrations ==
    <<"collect_requirements", "generate_user_stories", "product_owner_review",
      "revise_user_stories", "create_design_documents", "design_review",
      "revise_design_documents", "generate_code", "code_review",
      "fix_code_after_review", "security_review", "fix_code_after_security",
      "write_test_cases", "test_cases_review", "fix_test_cases", "qa_testing",
      "fix_code_after_qa", "deployment", "monitoring", "maintenance">>

\* The registry after the first n calls.
Registered(n) == {NodeRegistrations[i] : i \in 1..n}

\* One registration: a name already in the registry is refused and the
\* registry stays as it is.
register_node(reg, id) ==
    IF id \in reg THEN [registry |-> reg, raised |-> "ConfigurationError"]
    ELSE [registry |-> reg \cup {id}, raised |-> "none"]

\* Mutant: a lookup that falls back to a handler for any identifier.
resolves_anything(reg, id) == TRUE

\* Whether an identifier resolves to a registered handler.
resolves(reg, id) == id \in reg

set_entry_point == "collect_requirements"

\* ---------------------------------------------------------- transition table
add_edge ==
    [s \in Steps \ GateSteps |->
        CASE s = "collect_requirements"    -> "generate_user_stories"
          [] s = "generate_user_stories"   -> "product_owner_review"
          [] s = "revise_user_stories"     -> "product_owner_review"
          [] s = "create_design_documents" -> "design_review"
          [] s = "revise_design_documents" -> "design_review"
          [] s = "generate_code"           -> "code_review"
          [] s = "fix_code_after_review"   -> "code_review"
          [] s = "fix_code_after_security" -> "security_review"
          [] s = "write_test_cases"        -> "test_cases_review"
          [] s = "fix_test_cases"          -> "test_cases_review"
          [] s = "fix_code_after_qa"       -> "qa_testing"
          [] s = "deployment"              -> "monitoring"
          [] s = "monitoring"              -> "maintenance"
          [] s = "maintenance"             -> "collect_requirements"]

\* The lambdas handed to add_conditional_edges, one per gate.
\* Mutant: after enough audit entries the stories go forward unapproved.
product_owner_review_decision_caps_retries(state) ==
    IF Get(Get(state.feedback, "product_owner", EmptyDict), "approved", FALSE)
          \/ Len(state.history) >= 7
    THEN "create_design_documents" ELSE "revise_user_stories"

product_owner_review_decision(state) ==
    IF Get(Get(state.feedback, "product_owner", EmptyDict), "approved", FALSE)
    THEN "create_design_documents" ELSE "revise_user_stories"

\* Mutant: an approved design goes to a step nobody registered.
design_review_decision_dangling(state) ==
    IF Get(Get(state.feedback, "design_review", EmptyDict), "approved", FALSE)
    THEN "implement_code" ELSE "revise_design_documents"

design_review_decision(state) ==
    IF Get(Get(state.feedback, "design_review", EmptyDict), "approved", FALSE)
    THEN "generate_code" ELSE "revise_design_documents"

\* Mutant: an approved code review goes straight to the tests.
code_review_decision_skips_security(state) ==
    IF Get(Get(state.feedback, "code_review", EmptyDict), "approved", FALSE)
    THEN "write_test_cases" ELSE "fix_code_after_review"

code_review_decision(state) ==
    IF Get(Get(state.feedback, "code_review", EmptyDict), "approved", FALSE)
    THEN "security_review" ELSE "fix_code_after_review"

\* Mutant: the decision looks the record up under a key no handler writes.
security_review_decision_misspelt_key(state) ==
    IF Get(Get(state.feedback, "security", EmptyDict), "approved", FALSE)
    THEN "write_test_cases" ELSE "fix_code_after_security"

security_review_decision(state) ==
    IF Get(Get(state.feedback, "security_review", EmptyDict), "approved", FALSE)
    THEN "write_test_cases" ELSE "fix_code_after_security"

\* Mutant: rejected test cases go on to QA all the same.
test_cases_review_decision_waves_through(state) ==
    IF "test_cases_review" \in DOMAIN state.feedback
    THEN "qa_testing" ELSE "fix_test_cases"

test_cases_review_decision(state) ==
    IF Get(Get(state.feedback, "test_cases_review", EmptyDict), "approved", FALSE)
    THEN "qa_testing" ELSE "fix_test_cases"

\* Mutant: the QA decision looks for its verdict among the review feedback.
qa_testing_decision_reads_feedback(state) ==
    IF Get(Get(state.feedback, "qa_testing", EmptyDict), "approved", FALSE)
    THEN "deployment" ELSE "fix_code_after_qa"

qa_testing_decision(state) ==
    IF Get(state.qa_results, "passed", FALSE)
    THEN "deployment" ELSE "fix_code_after_qa"

add_conditional_edges(s, state) ==
    CASE s = "product_owner_review" -> product_owner_review_decision(state)
      [] s = "design_review"        -> design_review_decision(state)
      [] s = "code_review"          -> code_review_decision(state)
      [] s = "security_review"      -> security_review_decision(state)
      [] s = "test_cases_review"    -> test_cases_review_decision(state)
      [] s = "qa_testing"           -> qa_testing_decision(state)

\* Mutant: the security fix is wired back to the code review.
unconditional_edge_crossed_fix(s) ==
    IF s = "fix_code_after_security" THEN "code_review" ELSE add_edge[s]

\* Mutant: after a revision the stories are generated afresh.
unconditional_edge_regenerates(s) ==
    IF s = "revise_user_stories" THEN "generate_user_stories" ELSE add_edge[s]

\* Mutant: maintenance ends the graph.
unconditional_edge_ends(s) ==
    IF s = "maintenance" THEN END ELSE add_edge[s]

unconditional_edge(s) == add_edge[s]

\* The edge the graph follows out of node s once its handler has returned.
resolve_next(s, state) ==
    IF s \in DOMAIN add_edge THEN unconditional_edge(s)
    ELSE add_conditional_edges(s, state)

\* -------------------------------------------------------------------- state
\* Mutant: history declared with one list as its default value.
FieldDeclarations_one_history_list ==
    [user_inputs       |-> "default_factory",
     user_stories      |-> "default_factory",
     design_documents  |-> "default_factory",
     code              |-> "default_factory",
     test_cases        |-> "default_factory",
     qa_results        |-> "default_factory",
     maintenance_notes |-> "default_factory",
     current_step      |-> "default",
     history           |-> "mutable_default",
     feedback          |-> "default_factory"]

\* How WorkflowState declares the default of each field: a factory called
\* for every instance, or one immutable value.
FieldDeclarations ==
    [user_inputs       |-> "default_factory",
     user_stories      |-> "default_factory",
     design_documents  |-> "default_factory",
     code              |-> "default_factory",
     test_cases        |-> "default_factory",
     qa_results        |-> "default_factory",
     maintenance_notes |-> "default_factory",
     current_step      |-> "default",
     history           |-> "default_factory",
     feedback          |-> "default_factory"]

\* Fields whose container would be one object shared by every instance.
SharedFields ==
    {f \in DOMAIN FieldDeclarations : FieldDeclarations[f] = "mutable_default"}

\* What a second instance sees of a state that was just written: the
\* containers it shares with it, and nothing else.
Shared(other, written) ==
    [f \in DOMAIN other |->
        IF f \in SharedFields /\ f \in DOMAIN written THEN written[f] ELSE other[f]]

\* Mutant: the default current_step names the second step.
WorkflowState_starts_at_stories ==
    [user_inputs       |-> EmptyDict,
     user_stories      |-> <<>>,
     design_documents  |-> EmptyDict,
     code              |-> EmptyDict,
     test_cases        |-> <<>>,
     qa_results        |-> EmptyDict,
     maintenance_notes |-> <<>>,
     current_step      |-> "generate_user_stories",
     history           |-> <<>>,
     feedback          |-> EmptyDict]

WorkflowState ==
    [user_inputs       |-> EmptyDict,
     user_stories      |-> <<>>,
     design_documents  |-> EmptyDict,
     code              |-> EmptyDict,
     test_cases        |-> <<>>,
     qa_results        |-> EmptyDict,
     maintenance_notes |-> <<>>,
     current_step      |-> "collect_requirements",
     history           |-> <<>>,
     feedback          |-> EmptyDict]

\* Mutant: the new entry replaces the log.
add_to_history_overwrites(state, actor, message, now) ==
    [state EXCEPT !.history =
        <<[actor |-> actor, message |-> message, timestamp |-> now]>>]

add_to_history(state, actor, message, now) ==
    [state EXCEPT !.history =
        Append(@, [actor |-> actor, message |-> message, timestamp |-> now])]

\* A handler either returns the state or an exception propagates out of it,
\* leaving the (shared, mutated in place) state as it was at that statement.
Return(state) == [state |-> state, raised |-> "none"]

\* Mutant: the exception is swallowed and the state returned as it stands.
Raise_swallowed(state, exc) == [state |-> state, raised |-> "none"]

Raise(state, exc) == [state |-> state, raised |-> exc]

\* ----------------------------------------------------------------- handlers
collect_requirements(state, response, now) ==
    LET s1 == [state EXCEPT !.user_inputs = DictSet(@, "requirements_document", response)]
        s2 == add_to_history(s1, "ai",
                  "Requirements collected: " \o ToString(response) \o "...", now)
    IN  Return([s2 EXCEPT !.current_step = "generate_user_stories"])

\* Mutant: the generated stories are added to those already in the state.
generate_user_stories_accumulates(state, result, now) ==
    IF "user_stories" \notin DOMAIN result THEN Raise(state, "KeyError")
    ELSE
    LET s1 == [state EXCEPT !.user_stories = @ \o result.user_stories]
        s2 == add_to_history(s1, "ai",
                  "Generated " \o ToString(Len(result.user_stories)) \o " user stories", now)
    IN  Return([s2 EXCEPT !.current_step = "product_owner_review"])

generate_user_stories(state, result, now) ==
    IF "user_stories" \notin DOMAIN result THEN Raise(state, "KeyError")
    ELSE
    LET s1 == [state EXCEPT !.user_stories = result.user_stories]
        s2 == add_to_history(s1, "ai",
                  "Generated " \o ToString(Len(result.user_stories)) \o " user stories", now)
    IN  Return([s2 EXCEPT !.current_step = "product_owner_review"])

\* Mutant: a record that is already there is not overwritten.
product_owner_review_keeps_first_record(state, result, now) ==
    LET s1 == [state EXCEPT !.feedback =
                  IF "product_owner" \in DOMAIN @ THEN @
                  ELSE DictSet(@, "product_owner", result)]
    IN  IF "approved" \notin DOMAIN result THEN Raise(s1, "KeyError")
        ELSE
        LET s2 == add_to_history(s1, "ai",
                      "Product owner review: " \o
                      (IF result.approved THEN "Approved" ELSE "Needs revision"), now)
        IN  Return([s2 EXCEPT !.current_step =
                        IF result.approved THEN "create_design_documents"
                        ELSE "revise_user_stories"])

product_owner_review(state, result, now) ==
    LET s1 == [state EXCEPT !.feedback = DictSet(@, "product_owner", result)]
    IN  IF "approved" \notin DOMAIN result THEN Raise(s1, "KeyError")
        ELSE
        LET s2 == add_to_history(s1, "ai",
                      "Product owner review: " \o
                      (IF result.approved THEN "Approved" ELSE "Needs revision"), now)
        IN  Return([s2 EXCEPT !.current_step =
                        IF result.approved THEN "create_design_documents"
                        ELSE "revise_user_stories"])

\* A revision that extends the stories it was given instead of replacing them.
revise_user_stories_extends(state, result, now) ==
    IF "product_owner" \notin DOMAIN state.feedback THEN Raise(state, "KeyError")
    ELSE IF "user_stories" \notin DOMAIN result THEN Raise(state, "KeyError")
    ELSE
    LET s1 == [state EXCEPT !.user_stories = @ \o result.user_stories]
        s2 == add_to_history(s1, "ai", "User stories revised based on feedback", now)
    IN  Return([s2 EXCEPT !.current_step = "product_owner_review"])

revise_user_stories(state, result, now) ==
    IF "product_owner" \notin DOMAIN state.feedback THEN Raise(state, "KeyError")
    ELSE IF "user_stories" \notin DOMAIN result THEN Raise(state, "KeyError")
    ELSE
    LET s1 == [state EXCEPT !.user_stories = result.user_stories]
        s2 == add_to_history(s1, "ai", "User stories revised based on feedback", now)
    IN  Return([s2 EXCEPT !.current_step = "product_owner_review"])

create_design_documents(state, result, now) ==
    LET s1 == [state EXCEPT !.design_documents = result]
        s2 == add_to_history(s1, "ai", "Design documents created", now)
    IN  Return([s2 EXCEPT !.current_step = "design_review"])

\* Mutant: the design review starts the feedback afresh with its own record.
design_review_resets_feedback(state, result, now) ==
    LET s1 == [state EXCEPT !.feedback = DictSet(EmptyDict, "design_review", result)]
    IN  IF "approved" \notin DOMAIN result THEN Raise(s1, "KeyError")
        ELSE
        LET s2 == add_to_history(s1, "ai",
                      "Design review: " \o
                      (IF result.approved THEN "Approved" ELSE "Needs revision"), now)
        IN  Return([s2 EXCEPT !.current_step =
                        IF result.approved THEN "generate_code"
                        ELSE "revise_design_documents"])

design_review(state, result, now) ==
    LET s1 == [state EXCEPT !.feedback = DictSet(@, "design_review", result)]
    IN  IF "approved" \notin DOMAIN result THEN Raise(s1, "KeyError")
        ELSE
        LET s2 == add_to_history(s1, "ai",
                      "Design review: " \o
                      (IF result.approved THEN "Approved" ELSE "Needs revision"), now)
        IN  Return([s2 EXCEPT !.current_step =
                        IF result.approved THEN "generate_code"
                        ELSE "revise_design_documents"])

\* Mutant: the revision returns without naming its successor.
revise_design_documents_keeps_step(state, result, now) ==
    IF "design_review" \notin DOMAIN state.feedback THEN Raise(state, "KeyError")
    ELSE
    LET s1 == [state EXCEPT !.design_documents = result]
        s2 == add_to_history(s1, "ai", "Design documents revised based on feedback", now)
    IN  Return(s2)

revise_design_documents(state, result, now) ==
    IF "design_review" \notin DOMAIN state.feedback THEN Raise(state, "KeyError")
    ELSE
    LET s1 == [state EXCEPT !.design_documents = result]
        s2 == add_to_history(s1, "ai", "Design documents revised based on feedback", now)
    IN  Return([s2 EXCEPT !.current_step = "design_review"])

generate_code(state, result, now) ==
    LET s1 == [state EXCEPT !.code = result]
        s2 == add_to_history(s1, "ai", "Code generated for implementation", now)
    IN  Return([s2 EXCEPT !.current_step = "code_review"])

\* Mutant: a result without the flag is read as a rejection instead of failing.
code_review_tolerates_missing_flag(state, result, now) ==
    LET s1 == [state EXCEPT !.feedback = DictSet(@, "code_review", result)]
        ok == Get(result, "approved", FALSE)
        s2 == add_to_history(s1, "ai",
                  "Code review: " \o (IF ok THEN "Approved" ELSE "Needs revision"), now)
    IN  Return([s2 EXCEPT !.current_step =
                    IF ok THEN "security_review" ELSE "fix_code_after_review"])

code_review(state, result, now) ==
    LET s1 == [state EXCEPT !.feedback = DictSet(@, "code_review", result)]
    IN  IF "approved" \notin DOMAIN result THEN Raise(s1, "KeyError")
        ELSE
        LET s2 == add_to_history(s1, "ai",
                      "Code review: " \o
                      (IF result.approved THEN "Approved" ELSE "Needs revision"), now)
        IN  Return([s2 EXCEPT !.current_step =
                        IF result.approved THEN "security_review"
                        ELSE "fix_code_after_review"])

\* Mutant: the fix consumes the review record it answers.
fix_code_after_review_consumes_record(state, result, now) ==
    IF "code_review" \notin DOMAIN state.feedback THEN Raise(state, "KeyError")
    ELSE
    LET s1 == [state EXCEPT !.code = result,
                            !.feedback = [k \in DOMAIN @ \ {"code_review"} |-> @[k]]]
        s2 == add_to_history(s1, "ai", "Code fixed based on review feedback", now)
    IN  Return([s2 EXCEPT !.current_step = "code_review"])

fix_code_after_review(state, result, now) ==
    IF "code_review" \notin DOMAIN state.feedback THEN Raise(state, "KeyError")
    ELSE
    LET s1 == [state EXCEPT !.code = result]
        s2 == add_to_history(s1, "ai", "Code fixed based on review feedback", now)
    IN  Return([s2 EXCEPT !.current_step = "code_review"])

\* Mutant: the branches of the security review are the wrong way round.
security_review_swapped(state, result, now) ==
    LET s1 == [state EXCEPT !.feedback = DictSet(@, "security_review", result)]
    IN  IF "approved" \notin DOMAIN result THEN Raise(s1, "KeyError")
        ELSE
        LET s2 == add_to_history(s1, "ai",
                      "Security review: " \o
                      (IF result.approved THEN "Approved" ELSE "Security issues found"), now)
        IN  Return([s2 EXCEPT !.current_step =
                        IF result.approved THEN "fix_code_after_security"
                        ELSE "write_test_cases"])

security_review(state, result, now) ==
    LET s1 == [state EXCEPT !.feedback = DictSet(@, "security_review", result)]
    IN  IF "approved" \notin DOMAIN result THEN Raise(s1, "KeyError")
        ELSE
        LET s2 == add_to_history(s1, "ai",
                      "Security review: " \o
                      (IF result.approved THEN "Approved" ELSE "Security issues found"), now)
        IN  Return([s2 EXCEPT !.current_step =
                        IF result.approved THEN "write_test_cases"
                        ELSE "fix_code_after_security"])

\* Mutant: the security fix reads the record of the code review.
fix_code_after_security_reads_code_review(state, result, now) ==
    IF "code_review" \notin DOMAIN state.feedback THEN Raise(state, "KeyError")
    ELSE
    LET s1 == [state EXCEPT !.code = result]
        s2 == add_to_history(s1, "ai", "Code fixed based on security review", now)
    IN  Return([s2 EXCEPT !.current_step = "security_review"])

fix_code_after_security(state, result, now) ==
    IF "security_review" \notin DOMAIN state.feedback THEN Raise(state, "KeyError")
    ELSE
    LET s1 == [state EXCEPT !.code = result]
        s2 == add_to_history(s1, "ai", "Code fixed based on security review", now)
    IN  Return([s2 EXCEPT !.current_step = "security_review"])

write_test_cases(state, result, now) ==
    IF "test_cases" \notin DOMAIN result THEN Raise(state, "KeyError")
    ELSE
    LET s1 == [state EXCEPT !.test_cases = result.test_cases]
        s2 == add_to_history(s1, "ai",
                  "Created " \o ToString(Len(result.test_cases)) \o " test cases", now)
    IN  Return([s2 EXCEPT !.current_step = "test_cases_review"])

test_cases_review(state, result, now) ==
    LET s1 == [state EXCEPT !.feedback = DictSet(@, "test_cases_review", result)]
    IN  IF "approved" \notin DOMAIN result THEN Raise(s1, "KeyError")
        ELSE
        LET s2 == add_to_history(s1, "ai",
                      "Test cases review: " \o
                      (IF result.approved THEN "Approved" ELSE "Needs revision"), now)
        IN  Return([s2 EXCEPT !.current_step =
                        IF result.approved THEN "qa_testing" ELSE "fix_test_cases"])

fix_test_cases(state, result, now) ==
    IF "test_cases_review" \notin DOMAIN state.feedback THEN Raise(state, "KeyError")
    ELSE IF "test_cases" \notin DOMAIN result THEN Raise(state, "KeyError")
    ELSE
    LET s1 == [state EXCEPT !.test_cases = result.test_cases]
        s2 == add_to_history(s1, "ai", "Test cases revised based on feedback", now)
    IN  Return([s2 EXCEPT !.current_step = "test_cases_review"])

qa_testing(state, result, now) ==
    LET s1 == [state EXCEPT !.qa_results = result]
    IN  IF "passed" \notin DOMAIN result \/ "pass_rate" \notin DOMAIN result
        THEN Raise(s1, "KeyError")
        ELSE
        LET s2 == add_to_history(s1, "ai",
                      "QA testing: " \o (IF result.passed THEN "Passed" ELSE "Failed") \o
                      " with " \o ToString(result.pass_rate) \o "% pass rate", now)
        IN  Return([s2 EXCEPT !.current_step =
                        IF result.passed THEN "deployment" ELSE "fix_code_after_qa"])

fix_code_after_qa(state, result, now) ==
    LET s1 == [state EXCEPT !.code = result]
        s2 == add_to_history(s1, "ai", "Code fixed based on QA testing results", now)
    IN  Return([s2 EXCEPT !.current_step = "qa_testing"])

\* Mutant: the successor is misspelt.
deployment_misspelt_successor(state, result, now) ==
    LET s1 == DictSet(state, "deployment_plan", result)
        s2 == add_to_history(s1, "ai", "Deployment plan created and executed", now)
    IN  Return([s2 EXCEPT !.current_step = "monitor"])

deployment(state, result, now) ==
    LET s1 == DictSet(state, "deployment_plan", result)
        s2 == add_to_history(s1, "ai", "Deployment plan created and executed", now)
    IN  Return([s2 EXCEPT !.current_step = "monitoring"])

monitoring(state, result, now) ==
    LET s1 == DictSet(state, "monitoring_results", result)
        s2 == add_to_history(s1, "ai", "Monitoring data collected and analyzed", now)
    IN  Return([s2 EXCEPT !.current_step = "maintenance"])

\* The tail of maintenance (after its MaintenancePlan schema) is not part of
\* the available source; its writes follow the description of handlers:
\* one note appended, one history entry, the default successor.
maintenance(state, result, now) ==
    LET s1 == [state EXCEPT !.maintenance_notes = Append(@, result)]
        s2 == add_to_history(s1, "ai", "Maintenance plan created", now)
    IN  Return([s2 EXCEPT !.current_step = "collect_requirements"])

\* A handler that logs the call before it makes it.
before_invoke_logs_call(s, state) ==
    add_to_history(state, "ai", "Calling the model for " \o s, 0)

\* What handler s has done to the state when it reaches chain.invoke: every
\* handler only reads the state and builds its prompt before the call.
before_invoke(s, state) == state

add_node(s, state, result, now) ==
    CASE s = "collect_requirements"    -> collect_requirements(state, result, now)
      [] s = "generate_user_stories"   -> generate_user_stories(state, result, now)
      [] s = "product_owner_review"    -> product_owner_review(state, result, now)
      [] s = "revise_user_stories"     -> revise_user_stories(state, result, now)
      [] s = "create_design_documents" -> create_design_documents(state, result, now)
      [] s = "design_review"           -> design_review(state, result, now)
      [] s = "revise_design_documents" -> revise_design_documents(state, result, now)
      [] s = "generate_code"           -> generate_code(state, result, now)
      [] s = "code_review"             -> code_review(state, result, now)
      [] s = "fix_code_after_review"   -> fix_code_after_review(state, result, now)
      [] s = "security_review"         -> security_review(state, result, now)
      [] s = "fix_code_after_security" -> fix_code_after_security(state, result, now)
      [] s = "write_test_cases"        -> write_test_cases(state, result, now)
      [] s = "test_cases_review"       -> test_cases_review(state, result, now)
      [] s = "fix_test_cases"          -> fix_test_cases(state, result, now)
      [] s = "qa_testing"              -> qa_testing(state, result, now)
      [] s = "fix_code_after_qa"       -> fix_code_after_qa(state, result, now)
      [] s = "deployment"              -> deployment(state, result, now)
      [] s = "monitoring"              -> monitoring(state, result, now)
      [] s = "maintenance"             -> maintenance(state, result, now)

\* ------------------------------------- the stories phase, implemented twice
\* The handlers of user-stories-module.py.  They take the model from the
\* state, which WorkflowState gives no field for.
llm_of(state) == Get(state, "llm", "None")

\* `prompt | llm` with llm = None: the chain cannot be built.
Pipes(llm) == llm # "None"

\* JsonOutputParser hands back the parsed JSON as a dict: its keys are items,
\* not attributes, and it has no method dict().
HasAttribute(result, name) == FALSE

user_stories_generate_user_stories(state, result, now) ==
    IF ~Pipes(llm_of(state)) THEN Raise(state, "TypeError")
    ELSE IF ~HasAttribute(result, "user_stories") THEN Raise(state, "AttributeError")
    ELSE
    LET s1 == [state EXCEPT !.user_stories = result.user_stories]
        s2 == add_to_history(s1, "ai",
                  "Generated " \o ToString(Len(result.user_stories)) \o " user stories", now)
    IN  Return([s2 EXCEPT !.current_step = "product_owner_review"])

user_stories_product_owner_review(state, result, now) ==
    IF ~Pipes(llm_of(state)) THEN Raise(state, "TypeError")
    ELSE IF ~HasAttribute(result, "dict") THEN Raise(state, "AttributeError")
    ELSE
    LET s1 == [state EXCEPT !.feedback = DictSet(@, "product_owner", result)]
    IN  IF ~HasAttribute(result, "approved") THEN Raise(s1, "AttributeError")
        ELSE
        LET s2 == add_to_history(s1, "ai",
                      "Product owner review: " \o
                      (IF result.approved THEN "Approved" ELSE "Needs revision"), now)
        IN  Return([s2 EXCEPT !.current_step =
                        IF result.approved THEN "create_design_documents"
                        ELSE "revise_user_stories"])

user_stories_revise_user_stories(state, result, now) ==
    IF "product_owner" \notin DOMAIN state.feedback THEN Raise(state, "KeyError")
    ELSE IF ~Pipes(llm_of(state)) THEN Raise(state, "TypeError")
    ELSE IF ~HasAttribute(result, "user_stories") THEN Raise(state, "AttributeError")
    ELSE
    LET s1 == [state EXCEPT !.user_stories = result.user_stories]
        s2 == add_to_history(s1, "ai", "User stories revised based on feedback", now)
    IN  Return([s2 EXCEPT !.current_step = "product_owner_review"])

user_stories_node(s, state, result, now) ==
    CASE s = "generate_user_stories" -> user_stories_generate_user_stories(state, result, now)
      [] s = "product_owner_review"  -> user_stories_product_owner_review(state, result, now)
      [] s = "revise_user_stories"   -> user_stories_revise_user_stories(state, result, now)

\* ------------------------------------------------------------ model outputs
Lists == UNION {[1..n -> Payloads] : n \in 0..MaxStories}

Artifacts == {[payload |-> p] : p \in Payloads}

ReviewResults == {[approved |-> b] : b \in BOOLEAN} \cup {EmptyDict}

TestingResults ==
    {[passed |-> b, pass_rate |-> r] : b \in BOOLEAN, r \in Payloads} \cup {EmptyDict}

\* What the chain of step s can hand back when the call itself succeeds
\* (JsonOutputParser parses JSON; it does not enforce the pydantic schema).
ModelOutputs(s) ==
    CASE s = "collect_requirements" -> Payloads
      [] s \in {"generate_user_stories", "revise_user_stories"} ->
            {[user_stories |-> l] : l \in Lists} \cup {EmptyDict}
      [] s \in {"write_test_cases", "fix_test_cases"} ->
            {[test_cases |-> l] : l \in Lists} \cup {EmptyDict}
      [] s \in GateSteps \ {"qa_testing"} -> ReviewResults
      [] s = "qa_testing" -> TestingResults
      [] s = "maintenance" -> Payloads
      [] OTHER -> Artifacts

\* What a model output says of approval: the approved flag of a review, the
\* passed flag of the QA run; "none" for the output of any other step.
Verdict(s, result) ==
    LET flag == IF s = "qa_testing" THEN "passed" ELSE "approved"
    IN  IF s \notin GateSteps THEN "none"
        ELSE IF flag \notin DOMAIN result THEN "absent"
        ELSE IF result[flag] THEN "approved" ELSE "rejected"

\* ---------------------------------------------------------------- variables
VARIABLES
    state,       \* the WorkflowState dict threaded through the nodes
    node,        \* the node the graph runs next
    last,        \* the node whose outgoing edge was followed last ("none" at start)
    error,       \* the exception that ended the run, "none" while it runs
    iterations,  \* handler invocations completed
    budget,      \* the caller's cap on iterations
    events,      \* the node of every event the stream has yielded, in order
    verdicts,    \* per completed handler, what the model output said of approval
    output,      \* the model output the last completed handler consumed
    registry,    \* the step identifiers registered with the graph
    calls,       \* the add_node calls made so far, in order
    state2,      \* the WorkflowState of a second run
    node2,       \* the node the second run executes next
    error2,      \* the exception that ended the second run, "none" while it runs
    stream_mode, \* what the events of workflow.stream carry
    printed,     \* the step names main() has printed, in order
    clock,       \* the wall clock datetime.now() reads
    setbacks     \* how often the wall clock can still be set back during the run

vars == <<state, node, last, error, iterations, budget, events, verdicts, output,
          registry, calls, state2, node2, error2, stream_mode, printed,
          clock, setbacks>>

\* What main() shows of the run.
display == <<stream_mode, printed>>

\* The event workflow.stream yields once node s has returned state st: the
\* state itself, or the state keyed by the name of the node.
stream_event(mode, s, st) ==
    IF mode = "values" THEN st ELSE [n \in {s} |-> st]

\* The loop body of main(): the event's current_step is printed when the
\* event has one that is not empty.
main_prints(event) ==
    IF "current_step" \in DOMAIN event
    THEN (IF event.current_step # "" THEN <<event.current_step>> ELSE <<>>)
    ELSE <<>>

\* The graph once create_development_workflow has returned.
Built ==
    /\ registry = Registered(Len(NodeRegistrations))
    /\ calls = NodeRegistrations

\* No second run.
Alone ==
    /\ state2 = WorkflowState
    /\ node2 = set_entry_point
    /\ error2 = "none"

\* datetime.now() reads the local wall clock.  Between two handlers (a model
\* call apart) it has moved on, unless it was set back in between.
ClockAfter(now) ==
    {now + 1} \cup (IF now > 0 /\ setbacks > 0 THEN {now - 1} ELSE {})

\* Mutant: the cap is checked one iteration late.
WithinBudget_off_by_one == iterations <= budget

\* The caller's cap on the loop over the stream (main() itself sets none).
WithinBudget == iterations < budget

Init ==
    /\ state = WorkflowState
    /\ node = set_entry_point
    /\ last = "none"
    /\ error = "none"
    /\ iterations = 0
    /\ budget \in 1..MaxBudget
    /\ events = <<>>
    /\ verdicts = <<>>
    /\ output = "none"
    /\ stream_mode = "updates"
    /\ printed = <<>>
    /\ Built
    /\ Alone
    /\ clock = 0
    /\ setbacks = 0

\* chain.invoke raises: nothing of the handler after it runs.
ModelCallFails ==
    /\ error = "none" /\ WithinBudget /\ resolves(registry, node)
    /\ state' = before_invoke(node, state)
    /\ state2' = Shared(state2, state')
    /\ error' = "ModelCallError"
    /\ UNCHANGED <<display, node, last, iterations, budget, events, verdicts, output,
                   registry, calls, node2, error2, clock, setbacks>>

\* The handler raises on the output (or on a missing record): the exception
\* leaves the stream, the dict keeps the writes made before it.
HandlerRaises ==
    /\ error = "none" /\ WithinBudget /\ resolves(registry, node)
    /\ \E result \in ModelOutputs(node) :
         LET out == add_node(node, before_invoke(node, state), result, clock)
         IN  /\ out.raised # "none"
             /\ state' = out.state
             /\ error' = out.raised
    /\ state2' = Shared(state2, state')
    /\ UNCHANGED <<display, node, last, iterations, budget, events, verdicts, output,
                   registry, calls, node2, error2, clock, setbacks>>

\* One iteration of `for event in workflow.stream(...)`: the node runs, the
\* graph follows its outgoing edge, the caller sees the event.
HandlerCompletes ==
    /\ error = "none" /\ WithinBudget /\ resolves(registry, node)
    /\ \E result \in ModelOutputs(node) :
         LET out == add_node(node, before_invoke(node, state), result, clock)
         IN  /\ out.raised = "none"
             /\ state' = out.state
             /\ node' = resolve_next(node, out.state)
             /\ verdicts' = Append(verdicts, Verdict(node, result))
             /\ output' = result
    /\ state2' = Shared(state2, state')
    /\ clock' \in ClockAfter(clock)
    /\ setbacks' = IF clock' < clock THEN setbacks - 1 ELSE setbacks
    /\ last' = node
    /\ iterations' = iterations + 1
    /\ events' = Append(events, node)
    /\ printed' = printed \o main_prints(stream_event(stream_mode, node, state'))
    /\ UNCHANGED <<stream_mode, budget, error, registry, calls, node2, error2>>

Next == ModelCallFails \/ HandlerRaises \/ HandlerCompletes

\* Runs during which the wall clock is left alone.
Spec == Init /\ [][Next]_vars

\* Short runs during which the wall clock may be set back.
InitClock ==
    /\ state = WorkflowState
    /\ node = set_entry_point
    /\ last = "none"
    /\ error = "none"
    /\ iterations = 0
    /\ budget \in 1..MaxClockBudget
    /\ events = <<>>
    /\ verdicts = <<>>
    /\ output = "none"
    /\ stream_mode = "updates"
    /\ printed = <<>>
    /\ Built
    /\ Alone
    /\ clock = 0
    /\ setbacks = MaxSetbacks

SpecClock == InitClock /\ [][Next]_vars

\* ------------------------------------------------ what main() displays
MaxStreamBudget == 5

StreamModes == {"values", "updates"}

\* Short runs under either shape of the stream's events.
InitStream ==
    /\ state = WorkflowState
    /\ node = set_entry_point
    /\ last = "none"
    /\ error = "none"
    /\ iterations = 0
    /\ budget \in 1..MaxStreamBudget
    /\ events = <<>>
    /\ verdicts = <<>>
    /\ output = "none"
    /\ stream_mode \in StreamModes
    /\ printed = <<>>
    /\ Built
    /\ Alone
    /\ clock = 0
    /\ setbacks = 0

SpecStream == InitStream /\ [][Next]_vars

\* ------------------------------------------- runs of a partly built graph
MaxPartialBudget == 3

\* The executor meets a node that resolves to no handler: it stops with
\* UnknownStepError, runs nothing and writes nothing.
UnknownStep ==
    /\ error = "none" /\ WithinBudget /\ ~resolves(registry, node)
    /\ error' = "UnknownStepError"
    /\ UNCHANGED <<display, state, node, last, iterations, budget, events, verdicts, output,
                   registry, calls, state2, node2, error2, clock, setbacks>>

\* A graph for which only the first n add_node calls were made, with every
\* edge of the reference topology.
InitPartial ==
    /\ state = WorkflowState
    /\ node = set_entry_point
    /\ last = "none"
    /\ error = "none"
    /\ iterations = 0
    /\ budget \in 1..MaxPartialBudget
    /\ events = <<>>
    /\ verdicts = <<>>
    /\ output = "none"
    /\ stream_mode = "updates"
    /\ printed = <<>>
    /\ \E n \in 0..Len(NodeRegistrations) :
         /\ registry = Registered(n)
         /\ calls = SubSeq(NodeRegistrations, 1, n)
    /\ Alone
    /\ clock = 0
    /\ setbacks = 0

NextPartial == Next \/ UnknownStep

SpecPartial == InitPartial /\ [][NextPartial]_vars

\* ------------------------------------------------------ two runs at once
MaxConcurrentBudget == 3

\* The second run has its own budget of the same size.
WithinBudget2 == Len(state2.history) < budget

\* The steps of the second run: the same handlers and edges, applied to its
\* own state.
Run2ModelCallFails ==
    /\ error2 = "none" /\ WithinBudget2 /\ resolves(registry, node2)
    /\ state2' = before_invoke(node2, state2)
    /\ state' = Shared(state, state2')
    /\ error2' = "ModelCallError"
    /\ UNCHANGED <<display, node, last, error, iterations, budget, events, verdicts, output,
                   registry, calls, node2, clock, setbacks>>

Run2HandlerRaises ==
    /\ error2 = "none" /\ WithinBudget2 /\ resolves(registry, node2)
    /\ \E result \in ModelOutputs(node2) :
         LET out == add_node(node2, before_invoke(node2, state2), result, clock)
         IN  /\ out.raised # "none"
             /\ state2' = out.state
             /\ error2' = out.raised
    /\ state' = Shared(state, state2')
    /\ UNCHANGED <<display, node, last, error, iterations, budget, events, verdicts, output,
                   registry, calls, node2, clock, setbacks>>

Run2HandlerCompletes ==
    /\ error2 = "none" /\ WithinBudget2 /\ resolves(registry, node2)
    /\ \E result \in ModelOutputs(node2) :
         LET out == add_node(node2, before_invoke(node2, state2), result, clock)
         IN  /\ out.raised = "none"
             /\ state2' = out.state
             /\ node2' = resolve_next(node2, out.state)
    /\ state' = Shared(state, state2')
    /\ clock' \in ClockAfter(clock)
    /\ setbacks' = IF clock' < clock THEN setbacks - 1 ELSE setbacks
    /\ UNCHANGED <<display, node, last, error, iterations, budget, events, verdicts, output,
                   registry, calls, error2>>

\* Two runs started from two WorkflowState instances.
InitTwoRuns ==
    /\ state = WorkflowState
    /\ node = set_entry_point
    /\ last = "none"
    /\ error = "none"
    /\ iterations = 0
    /\ budget \in 1..MaxConcurrentBudget
    /\ events = <<>>
    /\ verdicts = <<>>
    /\ output = "none"
    /\ stream_mode = "updates"
    /\ printed = <<>>
    /\ Built
    /\ Alone
    /\ clock = 0
    /\ setbacks = 0

NextTwoRuns ==
    \/ Next
    \/ Run2ModelCallFails
    \/ Run2HandlerRaises
    \/ Run2HandlerCompletes

SpecTwoRuns == InitTwoRuns /\ [][NextTwoRuns]_vars

\* ------------------------------------------------ building the registry
\* Before the first add_node call.
InitRegistry ==
    /\ state = WorkflowState
    /\ node = set_entry_point
    /\ last = "none"
    /\ error = "none"
    /\ iterations = 0
    /\ budget = 1
    /\ events = <<>>
    /\ verdicts = <<>>
    /\ output = "none"
    /\ stream_mode = "updates"
    /\ printed = <<>>
    /\ registry = {}
    /\ calls = <<>>
    /\ Alone
    /\ clock = 0
    /\ setbacks = 0

\* The call add_node(id, ...), which ends the construction when it raises.
Register(id) ==
    LET out == register_node(registry, id)
    IN  /\ registry' = out.registry
        /\ error' = out.raised
        /\ calls' = Append(calls, id)
        /\ UNCHANGED <<display, state, node, last, iterations, budget, events, verdicts,
                       output, state2, node2, error2, clock, setbacks>>

\* The next add_node call of create_development_workflow.
RegisterNext ==
    /\ error = "none"
    /\ Len(calls) < Len(NodeRegistrations)
    /\ Register(NodeRegistrations[Len(calls) + 1])

\* One more add_node call, for a name that is registered already.
RegisterAgain ==
    /\ error = "none"
    /\ \E id \in registry : Register(id)

NextRegistry == RegisterNext \/ RegisterAgain

SpecRegistry == InitRegistry /\ [][NextRegistry]_vars

\* ------------------------------------------------- the edges as functions
\* The outgoing edge of every node, applied to every shape the feedback and
\* qa_results dicts can take (records present or absent, with or without
\* their flag), whether or not a run of the graph produces that shape.
FeedbackKeys ==
    {"product_owner", "design_review", "code_review", "security_review",
     "test_cases_review"}

FeedbackShapes == UNION {[K -> ReviewResults] : K \in SUBSET FeedbackKeys}

InitEdges ==
    /\ \E f \in FeedbackShapes, q \in TestingResults :
         state = [WorkflowState EXCEPT !.feedback = f, !.qa_results = q]
    /\ node \in Steps
    /\ last = "none"
    /\ error = "none"
    /\ iterations = 0
    /\ budget = 0
    /\ events = <<>>
    /\ verdicts = <<>>
    /\ output = "none"
    /\ stream_mode = "updates"
    /\ printed = <<>>
    /\ Built
    /\ Alone
    /\ clock = 0
    /\ setbacks = 0

FollowEdge ==
    /\ last = "none"
    /\ node' = resolve_next(node, state)
    /\ last' = node
    /\ UNCHANGED <<display, state, error, iterations, budget, events, verdicts, output,
                   registry, calls, state2, node2, error2, clock, setbacks>>

NextEdges == FollowEdge

SpecEdges == InitEdges /\ [][NextEdges]_vars

\* ------------------------------------------------------------------- claims
\* The state-machine table of the design: per gate, the key of its record,
\* the forward target and the paired fix step.
GateKey ==
    [g \in GateSteps \ {"qa_testing"} |->
        IF g = "product_owner_review" THEN "product_owner" ELSE g]

ForwardTarget ==
    [g \in GateSteps |->
        CASE g = "product_owner_review" -> "create_design_documents"
          [] g = "design_review"        -> "generate_code"
          [] g = "code_review"          -> "security_review"
          [] g = "security_review"      -> "write_test_cases"
          [] g = "test_cases_review"    -> "qa_testing"
          [] g = "qa_testing"           -> "deployment"]

PairedFix ==
    [g \in GateSteps |->
        CASE g = "product_owner_review" -> "revise_user_stories"
          [] g = "design_review"        -> "revise_design_documents"
          [] g = "code_review"          -> "fix_code_after_review"
          [] g = "security_review"      -> "fix_code_after_security"
          [] g = "test_cases_review"    -> "fix_test_cases"
          [] g = "qa_testing"           -> "fix_code_after_qa"]

OriginatingGate ==
    [f \in FixSteps |-> CHOOSE g \in GateSteps : PairedFix[g] = f]

\* The record of gate g is not in the state at all.
RecordAbsent(g, st) ==
    IF g = "qa_testing" THEN "passed" \notin DOMAIN st.qa_results
    ELSE GateKey[g] \notin DOMAIN st.feedback

\* "approved" / "rejected" when the record of gate g carries its flag,
\* "absent" when the record or the flag is missing.
GateVerdict(g, st) ==
    LET rec == IF g = "qa_testing" THEN st.qa_results
               ELSE Get(st.feedback, GateKey[g], EmptyDict)
        flag == IF g = "qa_testing" THEN "passed" ELSE "approved"
    IN  IF flag \notin DOMAIN rec THEN "absent"
        ELSE IF rec[flag] THEN "approved" ELSE "rejected"

\* C1: from each of the six gates, an approving record resolves to the
\* forward target of the table and a rejecting record to the paired fix
\* step, and the two are distinct.
C1_GateResolvesByApproval ==
    last \in GateSteps =>
        /\ GateVerdict(last, state) = "approved" => node = ForwardTarget[last]
        /\ GateVerdict(last, state) = "rejected" => node = PairedFix[last]
        /\ ForwardTarget[last] # PairedFix[last]

C1_Witness ==
    /\ last = "qa_testing"
    /\ GateVerdict("qa_testing", state) = "rejected"
    /\ node = "fix_code_after_qa"

\* C2: the edge out of every fix/revise step leads to its originating gate
\* whatever the state holds; every gate is the successor of exactly one fix
\* step, and a fix step a gate resolves to leads back to that same gate.
C2_FixReturnsToItsGate ==
    /\ last \in FixSteps => node = OriginatingGate[last]
    /\ \A g \in GateSteps :
         /\ Cardinality({f \in FixSteps : resolve_next(f, state) = g}) = 1
         /\ resolve_next(g, state) \in FixSteps =>
                resolve_next(resolve_next(g, state), state) = g

C2_Witness ==
    /\ last = "fix_code_after_security"
    /\ node = "security_review"
    /\ state.feedback # EmptyDict

\* C3: a gate's decision evaluated without its record fails with
\* MissingFeedbackError and yields neither the forward nor the fix step.
C3_MissingRecordFails ==
    (last \in GateSteps /\ RecordAbsent(last, state)) =>
        /\ error = "MissingFeedbackError"
        /\ node \notin {ForwardTarget[last], PairedFix[last]}

\* C4: with feedback["design_review"] never written, resolving the step after
\* design_review fails with MissingFeedbackError and the run stays at
\* design_review.
C4_DesignReviewHaltsInPlace ==
    (last = "design_review" /\ "design_review" \notin DOMAIN state.feedback) =>
        /\ error = "MissingFeedbackError"
        /\ node = "design_review"

GateRuns == {i \in 1..Len(events) : events[i] \in GateSteps}

AllApproving == \A i \in GateRuns : verdicts[i] = "approved"

ReleaseSteps == {"deployment", "monitoring", "maintenance"}

\* One lifecycle cycle of the table with every gate approving.
HappyPath ==
    <<"collect_requirements", "generate_user_stories", "product_owner_review",
      "create_design_documents", "design_review", "generate_code",
      "code_review", "security_review", "write_test_cases",
      "test_cases_review", "qa_testing", "deployment", "monitoring",
      "maintenance">>

HappyStep(i) == HappyPath[((i - 1) % Len(HappyPath)) + 1]

\* C5 as stated: with every gate approving, the cycle closes after eight
\* forward steps and the three release steps, without any fix step.
C5_CycleOfEightPlusThree ==
    (AllApproving /\ last = "maintenance" /\ Len(events) <= Len(HappyPath)) =>
        /\ node = "collect_requirements"
        /\ \A i \in 1..Len(events) : events[i] \notin FixSteps
        /\ Len(SelectSeq(events, LAMBDA e : e \notin ReleaseSteps)) = 8
        /\ Len(SelectSeq(events, LAMBDA e : e \in ReleaseSteps)) = 3

\* C5 amended: with every gate approving, the run visits the eleven steps of
\* the table (five generate steps, six gates) and the three release steps in
\* table order, visits no fix/revise step, and after the fourteenth the next
\* step, and current_step, is collect_requirements again.
C5_HappyPathInTableOrder ==
    AllApproving =>
        /\ \A i \in 1..Len(events) : events[i] = HappyStep(i) /\ events[i] \notin FixSteps
        /\ node = HappyStep(Len(events) + 1)
        /\ Len(events) = Len(HappyPath) =>
              /\ node = "collect_requirements"
              /\ state.current_step = "collect_requirements"

C5_Witness ==
    /\ AllApproving
    /\ Len(events) = Len(HappyPath)
    /\ last = "maintenance"
    /\ node = "collect_requirements"

\* The verdicts of the model at product_owner_review, in order.
ProductOwnerRuns == {i \in GateRuns : events[i] = "product_owner_review"}

RejectedOnceThenApproved ==
    /\ Cardinality(ProductOwnerRuns) >= 2
    /\ \E i, j \in ProductOwnerRuns :
         /\ i < j
         /\ \A k \in ProductOwnerRuns : k >= i /\ (k > i => k >= j)
         /\ verdicts[i] = "rejected"
         /\ verdicts[j] = "approved"

\* C6: with product_owner_review rejecting once and approving next, the steps
\* from generate_user_stories on are generate_user_stories,
\* product_owner_review, revise_user_stories, product_owner_review,
\* create_design_documents; revise_user_stories runs exactly once.
C6_SingleRejection ==
    RejectedOnceThenApproved =>
        /\ SubSeq(events, 2, 5) =
              <<"generate_user_stories", "product_owner_review",
                "revise_user_stories", "product_owner_review">>
        /\ IF Len(events) >= 6 THEN events[6] = "create_design_documents"
           ELSE node = "create_design_documents"
        /\ Cardinality({i \in 1..Len(events) : events[i] = "revise_user_stories"}) = 1

C6_Witness ==
    /\ RejectedOnceThenApproved
    /\ Len(events) >= 6
    /\ events[6] = "create_design_documents"

\* C7: a run with budget B never completes more than B handler invocations,
\* stops once B are completed, and does not stop before that unless an error
\* ended it.
C7_HaltsAtBudget ==
    /\ iterations <= budget
    /\ Len(events) <= budget
    /\ iterations = budget => ~ENABLED Next
    /\ (iterations < budget /\ error = "none") => ENABLED HandlerCompletes

C7_Witness ==
    /\ budget > 1
    /\ iterations = budget
    /\ Len(events) = budget
    /\ error = "none"

\* C8: no node leads to the end marker: the edge out of every step leads to
\* a step in every state, maintenance leads to collect_requirements, and a
\* run without error and within budget can always take its next step.
C8_NoTerminalState ==
    /\ node \in Steps
    /\ node # END
    /\ \A s \in Steps : resolve_next(s, state) \in Steps
    /\ last = "maintenance" => node = "collect_requirements"
    /\ (error = "none" /\ iterations < budget) => ENABLED HandlerCompletes

C8_Witness ==
    /\ Len(events) > Len(HappyPath)
    /\ events[Len(HappyPath)] = "maintenance"
    /\ events[Len(HappyPath) + 1] = "collect_requirements"

\* C9: current_step, as written by the handlers, and the node resolved by
\* the edges are always among the twenty registered steps.
C9_CurrentStepRegistered ==
    /\ state.current_step \in Steps
    /\ node \in Steps

C9_Witness ==
    /\ last = "deployment"
    /\ state.current_step = "monitoring"
    /\ node = "monitoring"

IsPrefix(h1, h2) == Len(h1) <= Len(h2) /\ SubSeq(h2, 1, Len(h1)) = h1

\* C10: history holds one entry per completed handler invocation, and every
\* step leaves the entries already there in place, unchanged and in order.
C10_HistoryAppendOnly ==
    /\ [](Len(state.history) = iterations)
    /\ [][IsPrefix(state.history, state.history')]_vars

C10_Witness ==
    /\ iterations = 4
    /\ Len(state.history) = 4
    /\ last = "revise_user_stories"

\* C11: a failed model call ends the run and leaves the state exactly as the
\* last completed step left it: no artifact, feedback record or history entry
\* is written, current_step and the graph position do not move, and no step
\* is taken afterwards.
C11_FailedCallLeavesState ==
    /\ [][error' = "ModelCallError" =>
             /\ state' = state
             /\ node' = node
             /\ iterations' = iterations
             /\ events' = events]_vars
    /\ [][error # "ModelCallError"]_vars

C11_Witness ==
    /\ error = "ModelCallError"
    /\ node = "generate_user_stories"
    /\ iterations = 1
    /\ state.user_stories = <<>>
    /\ Len(state.history) = 1
    /\ state.current_step = "generate_user_stories"

\* C12: every record stored in feedback carries the approved flag, so a gate
\* handler whose model output lacks it leaves nothing stored.
C12_FeedbackRecordsCarryApproved ==
    \A k \in DOMAIN state.feedback : "approved" \in DOMAIN state.feedback[k]

C14_NoDanglingReference ==
    /\ set_entry_point \in registry
    /\ \A s \in Steps \ GateSteps : unconditional_edge(s) \in registry
    /\ \A g \in GateSteps : add_conditional_edges(g, state) \in registry
    /\ \A s \in Steps : \A result \in ModelOutputs(s) :
           add_node(s, state, result, 0).state.current_step \in registry
    /\ node \in registry
    /\ error \notin {"ConfigurationError", "UnknownStepError"}

C14_Witness ==
    /\ last = "design_review"
    /\ GateVerdict("design_review", state) = "approved"
    /\ node = "generate_code"
    /\ node \in registry

\* C15: a step identifier that resolves to no registered handler stops the
\* run with UnknownStepError: the only step taken from such a node raises the
\* error, no handler runs and the state, the position and the history are
\* left as they were; the error is raised for no other reason and nothing
\* happens after it.
C15_UnknownStepStops ==
    /\ [][node \notin registry =>
             /\ error' = "UnknownStepError"
             /\ state' = state
             /\ node' = node
             /\ iterations' = iterations
             /\ events' = events]_vars
    /\ [][error' = "UnknownStepError" => node \notin registry]_vars
    /\ [][error # "UnknownStepError"]_vars

\* Only the first two steps are registered and the run has reached the
\* third.
C15_Witness ==
    /\ error = "UnknownStepError"
    /\ node = "product_owner_review"
    /\ registry = Registered(2)
    /\ iterations = 2
    /\ Len(state.history) = 2

\* C16: registering an identifier that is already registered fails with
\* ConfigurationError and leaves the registry as it was, and nothing else
\* fails; the twenty identifiers of the reference workflow are pairwise
\* distinct, so its own construction never raises.
C16_DuplicateRegistrationFails ==
    /\ [][calls' # calls =>
             IF calls'[Len(calls')] \in registry
             THEN error' = "ConfigurationError" /\ registry' = registry
             ELSE error' = "none" /\ registry' = registry \cup {calls'[Len(calls')]}]_vars
    /\ [](/\ Len(NodeRegistrations) = 20
          /\ \A i, j \in 1..Len(NodeRegistrations) :
                 i # j => NodeRegistrations[i] # NodeRegistrations[j])
    /\ []((/\ Len(calls) <= Len(NodeRegistrations)
           /\ \A i \in 1..Len(calls) : calls[i] = NodeRegistrations[i])
              => error = "none")

\* All twenty steps are registered and qa_testing is registered once more.
C16_Witness ==
    /\ error = "ConfigurationError"
    /\ Len(calls) = 21
    /\ calls[21] = "qa_testing"
    /\ Cardinality(registry) = 20

\* C17: after every completed iteration current_step names the successor
\* resolved for the step that just ran, which is the node the graph executes
\* next, and never the step that just ran.
C17_CurrentStepIsSuccessor ==
    iterations > 0 =>
        /\ state.current_step = node
        /\ state.current_step # last
        /\ error = "none" => state.current_step = resolve_next(last, state)

C17_Witness ==
    /\ last = "revise_design_documents"
    /\ state.current_step = "design_review"
    /\ node = "design_review"
    /\ error = "none"

C19_RunsAreIndependent ==
    /\ [][/\ (state' # state \/ node' # node \/ error' # error) =>
                state2' = state2 /\ node2' = node2 /\ error2' = error2
          /\ (state2' # state2 \/ node2' # node2 \/ error2' # error2) =>
                state' = state /\ node' = node /\ error' = error]_vars
    /\ [](Len(state.history) = iterations)

\* The first run has reviewed its stories while the second has only collected
\* its requirements.
C19_Witness ==
    /\ iterations = 3
    /\ last = "product_owner_review"
    /\ Len(state2.history) = 1
    /\ node2 = "generate_user_stories"
    /\ "product_owner" \in DOMAIN state.feedback
    /\ state2.feedback = EmptyDict

\* C20: the state a run starts from has every collection empty and its
\* current_step names the entry step, collect_requirements, which is the
\* graph's entry point and the first node executed.
C20_InitialStateIsEmpty ==
    iterations = 0 =>
        /\ state.user_inputs = EmptyDict
        /\ state.user_stories = <<>>
        /\ state.design_documents = EmptyDict
        /\ state.code = EmptyDict
        /\ state.test_cases = <<>>
        /\ state.qa_results = EmptyDict
        /\ state.maintenance_notes = <<>>
        /\ state.history = <<>>
        /\ state.feedback = EmptyDict
        /\ DOMAIN state = DOMAIN FieldDeclarations
        /\ state.current_step = "collect_requirements"
        /\ state.current_step = set_entry_point
        /\ node = set_entry_point

C20_Witness ==
    /\ iterations = 0
    /\ error = "none"
    /\ last = "none"
    /\ budget = MaxBudget
    /\ state = WorkflowState
    /\ ENABLED HandlerCompletes

\* C21: the timestamps of the history entries never decrease in history
\* order.
C21_TimestampsNonDecreasing ==
    \A i, j \in 1..Len(state.history) :
        i < j => state.history[i].timestamp <= state.history[j].timestamp

ReviewGates == GateSteps \ {"qa_testing"}

\* The handler of the current node completes in this step.
Completes == iterations' = iterations + 1

\* The step stores the model output under feedback key k, replacing what was
\* there, and leaves the record of every other key as it was.
StoresUnder(k) ==
    /\ DOMAIN state'.feedback = DOMAIN state.feedback \cup {k}
    /\ state'.feedback[k] = output'
    /\ \A other \in DOMAIN state.feedback \ {k} :
           state'.feedback[other] = state.feedback[other]

\* C23 as stated: feedback is keyed by gate name: a review gate G that
\* completes stores its result at feedback[G], replacing any prior value, and
\* leaves the records of every other key unchanged.
C23_StoredUnderGateName ==
    [][\A g \in ReviewGates : (node = g /\ Completes) => StoresUnder(g)]_vars

\* C23 amended: a review gate that completes stores its result under its
\* feedback key (product_owner for product_owner_review, the gate's own name
\* for the other four), replacing any prior value, and leaves the records of
\* every other key unchanged.
C23_StoredUnderGateKey ==
    [][\A g \in ReviewGates : (node = g /\ Completes) => StoresUnder(GateKey[g])]_vars

\* The design was rejected, revised and approved: the second record replaced
\* the first and the product owner's record is still there.
C23_Witness ==
    /\ last = "design_review"
    /\ iterations = 7
    /\ verdicts[5] = "rejected"
    /\ state.feedback["design_review"].approved
    /\ state.feedback["design_review"] = output
    /\ "product_owner" \in DOMAIN state.feedback

\* The iterations at which gate g ran.
RunsOf(g) == {i \in 1..Len(events) : events[i] = g}

FirstRunOf(g) == CHOOSE i \in RunsOf(g) : \A j \in RunsOf(g) : i <= j

\* Gate g has run and the model has rejected at every one of its runs.
AlwaysRejected(g) ==
    /\ RunsOf(g) # {}
    /\ \A i \in RunsOf(g) : verdicts[i] = "rejected"

\* C24: the retry loop of a phase has no counter of its own: while a gate
\* rejects at every evaluation the run alternates between the gate and its
\* fix step, executes no step of a later phase, and is stopped by nothing but
\* the caller's budget.
C24_RetryLoopUnbounded ==
    \A g \in GateSteps :
        AlwaysRejected(g) =>
            /\ \A i \in FirstRunOf(g)..Len(events) :
                   events[i] = IF (i - FirstRunOf(g)) % 2 = 0 THEN g ELSE PairedFix[g]
            /\ node \in {g, PairedFix[g]}
            /\ (error = "none" /\ iterations < budget) => ENABLED HandlerCompletes

\* The stories were rejected six times in a row and are under revision again.
C24_Witness ==
    /\ AlwaysRejected("product_owner_review")
    /\ Cardinality(RunsOf("product_owner_review")) = 6
    /\ iterations = 13
    /\ node = "revise_user_stories"
    /\ error = "none"

\* The append-only logs of the state; every other key holds an artifact, the
\* feedback or current_step.
LogFields == {"history", "maintenance_notes"}

Approval == [approved |-> TRUE]

Rejection == [approved |-> FALSE]

\* ------------------------------------------- a handler invoked and retried
\* The states a handler can be handed: no feedback, or every review gate's
\* record rejecting or approving; any QA result; artifacts empty or filled.
HandlerInputs ==
    {[WorkflowState EXCEPT !.feedback = f, !.qa_results = q,
                           !.user_stories = l, !.test_cases = l,
                           !.design_documents = a, !.code = a] :
        f \in {EmptyDict} \cup {[k \in FeedbackKeys |-> r] : r \in {Approval, Rejection}},
        q \in TestingResults,
        l \in Lists,
        a \in Artifacts \cup {EmptyDict}}

\* Any node about to run on any such state, with a budget of one step.
InitRetry ==
    /\ state \in HandlerInputs
    /\ node \in Steps
    /\ last = "none"
    /\ error = "none"
    /\ iterations = 0
    /\ budget = 1
    /\ events = <<>>
    /\ verdicts = <<>>
    /\ output = "none"
    /\ stream_mode = "updates"
    /\ printed = <<>>
    /\ Built
    /\ Alone
    /\ clock = 0
    /\ setbacks = 0

\* The handler that has just completed is invoked once more, on the state it
\* produced and with the same model output.
Retry ==
    /\ error = "none" /\ iterations = 1 /\ last # "none"
    /\ LET out == add_node(last, state, output, clock)
       IN  /\ state' = out.state
           /\ error' = out.raised
    /\ iterations' = iterations + 1
    /\ clock' = clock + 1
    /\ UNCHANGED <<display, node, last, budget, events, verdicts, output,
                   registry, calls, state2, node2, error2, setbacks>>

NextRetry == Next \/ Retry

SpecRetry == InitRetry /\ [][NextRetry]_vars

\* C25: a handler invoked a second time on the state it just produced, with
\* the same model output, completes and yields the same artifacts, the same
\* feedback and the same current_step as the first invocation.
C25_HandlerIdempotent ==
    [][(iterations = 1 /\ iterations' = 2) =>
          /\ error' = "none"
          /\ DOMAIN state' = DOMAIN state
          /\ \A f \in DOMAIN state \ LogFields : state'[f] = state[f]]_vars

\* A rejected design was revised twice with the same output: the second
\* revision changed nothing but the history.
C25_Witness ==
    /\ last = "revise_design_documents"
    /\ iterations = 2
    /\ error = "none"
    /\ state.design_documents = output
    /\ Len(state.history) = 2
    /\ GateVerdict("design_review", state) = "rejected"

\* The model output carries the flag the step's decision reads.
CarriesFlag(s, result) == s \in GateSteps => Verdict(s, result) # "absent"

\* C26: the handlers and the edges agree: for every step, every state it is
\* handed and every model output that carries its approved (or passed) flag,
\* the current_step the handler writes is the node the edge resolves from
\* the state the handler returns.
C26_HandlerAgreesWithEdge ==
    (iterations = 1 /\ CarriesFlag(last, output)) =>
        /\ state.current_step = node
        /\ state.current_step = resolve_next(last, state)

\* The security review rejected although the record it replaced approved:
\* handler and edge both name the security fix.
C26_Witness ==
    /\ iterations = 1
    /\ last = "security_review"
    /\ output = Rejection
    /\ GateVerdict("code_review", state) = "approved"
    /\ state.current_step = "fix_code_after_security"
    /\ node = "fix_code_after_security"

\* A feedback dict holding rec under every key but k, and own under k.
WithOthers(k, own, rec) ==
    [j \in FeedbackKeys |-> IF j = k THEN own ELSE rec]

\* A feedback dict holding rec under every key but k, and nothing under k.
Without(k, rec) == [j \in FeedbackKeys \ {k} |-> rec]

\* Review gate g stores, decides on and has its fix step read one and the
\* same feedback key.
SameKeyThroughout(g) ==
    LET k == GateKey[g]
        f == PairedFix[g]
    IN  /\ \A r \in {Approval, Rejection} :
               LET out == add_node(g, [state EXCEPT !.feedback = EmptyDict], r, 0)
               IN  out.raised = "none" /\ DOMAIN out.state.feedback = {k}
        /\ resolve_next(g, [state EXCEPT !.feedback = WithOthers(k, Approval, Rejection)])
               = ForwardTarget[g]
        /\ resolve_next(g, [state EXCEPT !.feedback = WithOthers(k, Rejection, Approval)])
               = f
        /\ \E r \in ModelOutputs(f) :
               add_node(f, [state EXCEPT !.feedback = WithOthers(k, Rejection, Approval)],
                        r, 0).raised = "none"
        /\ \A r \in ModelOutputs(f) :
               add_node(f, [state EXCEPT !.feedback = Without(k, Rejection)],
                        r, 0).raised = "KeyError"

\* qa_testing stores its result in qa_results and its decision reads it
\* there, whatever feedback holds.
QaKeyThroughout ==
    \A r \in {t \in TestingResults : Verdict("qa_testing", t) # "absent"} :
        LET out == add_node("qa_testing", state, r, 0)
        IN  /\ out.raised = "none"
            /\ out.state.qa_results = r
            /\ out.state.feedback = state.feedback
            /\ resolve_next("qa_testing", out.state) =
                   IF r.passed THEN "deployment" ELSE "fix_code_after_qa"

\* C27: for every gate the key its handler stores its result under is the key
\* its decision reads and the key its fix handler reads, so the decision that
\* follows a gate is made from the record that gate has just written.
C27_OneKeyPerGate ==
    /\ \A g \in ReviewGates : SameKeyThroughout(g)
    /\ QaKeyThroughout
    /\ \A g \in ReviewGates : \A r \in {Approval, Rejection} :
           resolve_next(g, add_node(g, state, r, 0).state) =
               IF r.approved THEN ForwardTarget[g] ELSE PairedFix[g]

\* The security review has rejected, the edge led to its fix step and the
\* fix step finds the record it reads.
C27_Witness ==
    /\ last = "security_review"
    /\ node = "fix_code_after_security"
    /\ GateVerdict("security_review", state) = "rejected"
    /\ "code_review" \notin DOMAIN state.feedback
    /\ \E r \in ModelOutputs(node) : add_node(node, state, r, 0).raised = "none"

\* ------------------------------------------------ the second lifecycle cycle
MaxSecondCycleBudget == 6

\* An output of step s that lets the run go forward.
ApprovingOutput(s) ==
    CASE s \in {"collect_requirements", "maintenance"} -> 1
      [] s \in {"generate_user_stories", "revise_user_stories"} ->
            [user_stories |-> <<1>>]
      [] s \in {"write_test_cases", "fix_test_cases"} -> [test_cases |-> <<1>>]
      [] s \in ReviewGates -> Approval
      [] s = "qa_testing" -> [passed |-> TRUE, pass_rate |-> 1]
      [] OTHER -> [payload |-> 1]

\* The state after the first n steps of a cycle in which every gate approves.
RECURSIVE AfterSteps(_)
AfterSteps(n) ==
    IF n = 0 THEN WorkflowState
    ELSE add_node(HappyPath[n], AfterSteps(n - 1),
                  ApprovingOutput(HappyPath[n]), n - 1).state

\* A run that has completed one approving cycle and is back at
\* collect_requirements, with every record of that cycle still in the state.
InitSecondCycle ==
    /\ state = AfterSteps(Len(HappyPath))
    /\ node = set_entry_point
    /\ last = "maintenance"
    /\ error = "none"
    /\ iterations = Len(HappyPath)
    /\ budget \in (Len(HappyPath) + 1)..(Len(HappyPath) + MaxSecondCycleBudget)
    /\ events = HappyPath
    /\ verdicts = [i \in 1..Len(HappyPath) |->
                      Verdict(HappyPath[i], ApprovingOutput(HappyPath[i]))]
    /\ output = ApprovingOutput("maintenance")
    /\ stream_mode = "updates"
    /\ printed = <<>>
    /\ Built
    /\ Alone
    /\ clock = Len(HappyPath)
    /\ setbacks = 0

SpecSecondCycle == InitSecondCycle /\ [][Next]_vars

\* The record the decision of gate g reads in state st.
RecordRead(g, st) ==
    IF g = "qa_testing" THEN st.qa_results
    ELSE Get(st.feedback, GateKey[g], EmptyDict)

C29_FixStepHasRejection ==
    \A f \in FixSteps :
        (state.current_step = f \/ node = f) =>
            /\ ~RecordAbsent(OriginatingGate[f], state)
            /\ GateVerdict(OriginatingGate[f], state) = "rejected"
            /\ \E r \in ModelOutputs(f) : add_node(f, state, r, clock).raised = "none"

\* The tests were rejected and fix_test_cases is next.
C29_Witness ==
    /\ state.current_step = "fix_test_cases"
    /\ node = "fix_test_cases"
    /\ error = "none"
    /\ ~state.feedback["test_cases_review"].approved

\* C30: a forward step is entered only on approval: whenever the node to run
\* (or current_step) is the forward target of a gate, the latest record of
\* that gate approves; at deployment qa_results.passed is true and the latest
\* records of all five review gates approve.
C30_ForwardOnlyOnApproval ==
    /\ \A g \in GateSteps :
           (node = ForwardTarget[g] \/ state.current_step = ForwardTarget[g]) =>
               GateVerdict(g, state) = "approved"
    /\ (node = "deployment" \/ state.current_step = "deployment") =>
           /\ state.qa_results.passed
           /\ \A g \in ReviewGates : state.feedback[GateKey[g]].approved

\* Deployment is reached after at least one rejection on the way.
C30_Witness ==
    /\ node = "deployment"
    /\ state.current_step = "deployment"
    /\ last = "qa_testing"
    /\ \E i \in 1..Len(verdicts) : verdicts[i] = "rejected"
    /\ state.qa_results.passed

\* ------------------------------------------------- the code that is deployed
\* Handler s assigns state.code: on some state it can be handed, with some
\* model output, the code it returns is not the code it was given.
ReplacesCode(s) ==
    \E st \in HandlerInputs : \E r \in ModelOutputs(s) :
        LET out == add_node(s, st, r, 0)
        IN  out.raised = "none" /\ out.state.code # st.code

\* The position in the stream of the last approving run of gate g, 0 when
\* the gate has not approved.
LastApproving(g) ==
    LET runs == {i \in 1..Len(events) : events[i] = g /\ verdicts[i] = "approved"}
    IN  IF runs = {} THEN 0 ELSE CHOOSE i \in runs : \A j \in runs : j <= i

Invoked == IF iterations < budget THEN node ELSE last

\* The key of the state that holds the output of step s.
OutputField(s) ==
    CASE s = "collect_requirements" -> "user_inputs"
      [] s \in {"generate_user_stories", "revise_user_stories"} -> "user_stories"
      [] s \in {"create_design_documents", "revise_design_documents"} -> "design_documents"
      [] s \in {"generate_code", "fix_code_after_review", "fix_code_after_security",
                "fix_code_after_qa"} -> "code"
      [] s \in {"write_test_cases", "fix_test_cases"} -> "test_cases"
      [] s = "qa_testing" -> "qa_results"
      [] s = "deployment" -> "deployment_plan"
      [] s = "monitoring" -> "monitoring_results"
      [] s = "maintenance" -> "maintenance_notes"
      [] OTHER -> "feedback"

\* Dict after holds every key of dict before outside own with the value it
\* had, and no new key outside own.
SameOutside(own, before, after) ==
    /\ DOMAIN before \ own \subseteq DOMAIN after
    /\ DOMAIN after \ DOMAIN before \subseteq own
    /\ \A k \in DOMAIN before \ own : after[k] = before[k]

\* Step s, handed state before, left state after: only the output field of
\* the step, the history and current_step differ, and of the feedback of a
\* review gate only the gate's own key.
FrameKept(s, before, after) ==
    /\ SameOutside({OutputField(s), "history", "current_step"}, before, after)
    /\ s \in DOMAIN GateKey =>
          SameOutside({GateKey[s]}, before.feedback, after.feedback)

\* C32: every handler invocation that changes the state changes only the
\* handler's own output (one artifact field for a generate, fix or revise
\* step; one feedback key for a review gate; qa_results for qa_testing;
\* user_inputs for collect_requirements), the history and current_step;
\* every other field and every other feedback key keeps its value.
C32_HandlerWritesOnlyItsOutput ==
    [][state' # state => FrameKept(Invoked, state, state')]_vars

\* fix_code_after_review ran on a state without code and without design
\* documents but with stories, test cases and rejecting records: the code
\* is now the model's output, all the rest is as it was.
C32_Witness ==
    /\ last = "fix_code_after_review"
    /\ iterations = 1
    /\ error = "none"
    /\ state.code = output
    /\ state.design_documents = EmptyDict
    /\ state.user_stories # <<>>
    /\ state.test_cases # <<>>
    /\ \A k \in FeedbackKeys : Get(state.feedback, k, Approval) = Rejection
    /\ state.current_step = "code_review"

\* --------------------------------------------------- the fields of the state
\* C33: in every reachable state the state has exactly the ten fields
\* WorkflowState declares: no handler stores anything under another key.
C33_OnlyDeclaredFields == DOMAIN state = DOMAIN FieldDeclarations

\* -------------------------------------------------------- the unbudgeted run
\* main() loops over workflow.stream without a cap, and the graph has no END
\* edge: the run goes on for as long as no exception leaves a handler.  The
\* logs only ever grow, and no decision reads them; so that the run has
\* finitely many states they are seen here through a window of their latest
\* entry, the steps are not counted and the clock is not advanced.
Latest(log) == IF log = <<>> THEN <<>> ELSE <<log[Len(log)]>>

Windowed(st) ==
    [st EXCEPT !.history = Latest(@), !.maintenance_notes = Latest(@)]

\* One iteration of the loop of main() in which the node's handler returns.
UnbudgetedCompletes ==
    /\ error = "none" /\ resolves(registry, node)
    /\ \E result \in ModelOutputs(node) :
         LET out == add_node(node, before_invoke(node, state), result, clock)
         IN  /\ out.raised = "none"
             /\ state' = Windowed(out.state)
             /\ node' = resolve_next(node, out.state)
             /\ verdicts' = <<Verdict(node, result)>>
             /\ output' = result
    /\ state2' = Shared(state2, state')
    /\ last' = node
    /\ events' = <<node>>
    /\ printed' = main_prints(stream_event(stream_mode, node, state'))
    /\ UNCHANGED <<stream_mode, iterations, budget, error, registry, calls,
                   node2, error2, clock, setbacks>>

UnbudgetedModelCallFails ==
    /\ error = "none" /\ resolves(registry, node)
    /\ state' = before_invoke(node, state)
    /\ state2' = Shared(state2, state')
    /\ error' = "ModelCallError"
    /\ UNCHANGED <<display, node, last, iterations, budget, events, verdicts, output,
                   registry, calls, node2, error2, clock, setbacks>>

UnbudgetedHandlerRaises ==
    /\ error = "none" /\ resolves(registry, node)
    /\ \E result \in ModelOutputs(node) :
         LET out == add_node(node, before_invoke(node, state), result, clock)
         IN  /\ out.raised # "none"
             /\ state' = Windowed(out.state)
             /\ error' = out.raised
    /\ state2' = Shared(state2, state')
    /\ UNCHANGED <<display, node, last, iterations, budget, events, verdicts, output,
                   registry, calls, node2, error2, clock, setbacks>>

NextUnbudgeted ==
    UnbudgetedModelCallFails \/ UnbudgetedHandlerRaises \/ UnbudgetedCompletes

\* The run of main(): the caller's cap plays no part in it.
InitUnbudgeted == Init /\ budget = MaxBudget

\* The stream yields the next event whenever a handler can return.
SpecUnbudgeted ==
    InitUnbudgeted /\ [][NextUnbudgeted]_vars /\ WF_vars(UnbudgetedCompletes)

\* maintenance has just run and the graph is back at its entry point.
CycleClosed == last = "maintenance" /\ node = set_entry_point

\* Gate g is about to be evaluated.
Evaluates(g) == node = g /\ error = "none"

\* Gate g has just run, and its model output approved (qa_testing: passed).
JustApproved(g) == last = g /\ verdicts = <<"approved">>

\* C34: in a run without a budget in which no exception leaves a handler and
\* in which every gate that is evaluated infinitely often approves infinitely
\* often, the lifecycle closes infinitely often: deployment, monitoring and
\* maintenance run and the graph returns to collect_requirements, again and
\* again.
C34_LifecycleClosesAgainAndAgain ==
    ([](error = "none")
        /\ \A g \in GateSteps : ([]<>Evaluates(g) => []<>JustApproved(g)))
    => []<>CycleClosed

\* A second cycle under way: the state holds the deployment plan of the
\* first, qa_testing has just failed and the code is about to be fixed.
C34_Witness ==
    /\ "deployment_plan" \in DOMAIN state
    /\ "monitoring_results" \in DOMAIN state
    /\ state.maintenance_notes # <<>>
    /\ last = "qa_testing"
    /\ node = "fix_code_after_qa"
    /\ error = "none"

\* ------------------------------------------- both stories implementations
StoriesSteps == {"generate_user_stories", "product_owner_review", "revise_user_stories"}

\* A step of the stories phase about to run on any state a handler can be
\* handed, as the caller built it or with the model put under "llm"; state
\* is for the handler of development-workflow-agent.py, state2, the same
\* state, for the handler of user-stories-module.py.
InitStories ==
    /\ \E st \in HandlerInputs :
          state \in {st, DictSet(st, "llm", "ChatOpenAI")}
    /\ state2 = state
    /\ node \in StoriesSteps
    /\ node2 = node
    /\ last = "none"
    /\ error = "none"
    /\ error2 = "none"
    /\ iterations = 0
    /\ budget = 1
    /\ events = <<>>
    /\ verdicts = <<>>
    /\ output = "none"
    /\ stream_mode = "updates"
    /\ printed = <<>>
    /\ Built
    /\ clock = 0
    /\ setbacks = 0

\* Both implementations of the step are invoked with the same model output.
BothInvoked ==
    /\ iterations = 0
    /\ \E result \in ModelOutputs(node) :
         LET out  == add_node(node, state, result, clock)
             out2 == user_stories_node(node2, state2, result, clock)
         IN  /\ state' = out.state
             /\ error' = out.raised
             /\ state2' = out2.state
             /\ error2' = out2.raised
             /\ output' = result
             /\ verdicts' = <<Verdict(node, result)>>
    /\ last' = node
    /\ events' = <<node>>
    /\ iterations' = 1
    /\ UNCHANGED <<display, node, budget, registry, calls, node2, clock, setbacks>>

NextStories == BothInvoked

SpecStories == InitStories /\ [][NextStories]_vars

\* C35: given the same input state and the same model output, the handler of
\* a stories step in development-workflow-agent.py and its namesake in
\* user-stories-module.py leave the same state: the same user_stories, the
\* same feedback["product_owner"], the same history entry and the same
\* current_step.
C35_ImplementationsAgree == iterations = 1 => state2 = state

====
